---- MODULE Spec2Model ----
(***************************************************************************)
(* Model of app.py, the Streamlit "Family Facial Comparison" page.         *)
(*                                                                         *)
(* One session is modelled.  A user action (button click, selector change, *)
(* upload, removal) runs its callback and restarts the script; the script  *)
(* then runs show_img and, when the three images are present, the three    *)
(* steps of compare_image: the paternal run_deepface call, the maternal    *)
(* run_deepface call, and the display of the results.                      *)
(*                                                                         *)
(* Distances are exact rationals n/Scale, similarities are exact rationals *)
(* <<numerator, denominator>> computed by the arithmetic of charts().      *)
(***************************************************************************)
EXTENDS Integers, Sequences, FiniteSets, TLC

\* ---------------------------------------------------------------- bounds
\* Distances returned by the verifier are n/Scale for n in 0..MaxDist.
Scale == 20
MaxDist == 24
\* The click counter is unbounded in the code; the model stops clicking here.
MaxClicks == 2

\* ------------------------------------------------------- program constants
Metrics == {"cosine", "euclidean", "euclidean_l2"}
Models == {"Facenet", "VGG-Face", "Facenet512", "OpenFace", "DeepFace",
           "DeepID", "ArcFace", "Dlib", "SFace"}
Slots == {"father", "mother", "child"}

\* Python's None, and the value of a local that has not been assigned yet.
None == [isNone |-> TRUE]
Unset == [unset |-> TRUE]

\* What an uploaded file turns out to be when PIL opens it:
\*   good        decodes to an RGB array
\*   value_error Image.open / convert raises ValueError
\*   undecodable Image.open raises UnidentifiedImageError (an OSError)
Kinds == {"good", "value_error", "undecodable"}

SampleImg(slot) == [name |-> slot, kind |-> "good", sample |-> TRUE]
UploadImg(slot, kind) == [name |-> slot, kind |-> kind, sample |-> FALSE]

\* ------------------------------------------------------ exact arithmetic
Rat(n, d) == <<n, d>>
One == Rat(1, 1)
RatAdd(a, b) == <<a[1] * b[2] + b[1] * a[2], a[2] * b[2]>>
RatSub(a, b) == <<a[1] * b[2] - b[1] * a[2], a[2] * b[2]>>
\* a / b for b > 0
RatDiv(a, b) == <<a[1] * b[2], a[2] * b[1]>>
RatLess(a, b) == a[1] * b[2] < b[1] * a[2]
RatEq(a, b) == a[1] * b[2] = b[1] * a[2]

Distances == {Rat(n, Scale) : n \in 0..MaxDist}

\* What DeepFace.verify can do with two decoded images: return a result
\* holding a distance, raise ValueError (no face found), or raise something
\* else.
VerifyOutcomes ==
    {[exc |-> "None", result |-> [distance |-> d]] : d \in Distances}
    \cup {[exc |-> "ValueError", result |-> None],
          [exc |-> "RuntimeError", result |-> None]}

VARIABLES
    clicks,            \* st.session_state.clicks
    distance_metrics,  \* sidebar radio
    model,             \* sidebar selectbox
    uploads,           \* the three file uploaders: slot -> image or None
    sample,            \* argument of show_img in the current run
    img_father, img_mother, img_child,   \* what show_img returned
    pc,                \* position of the script run
    paternal_result, maternal_result,    \* locals of compare_image
    rdf_calls,         \* run_deepface calls of this run, in order
    verify_calls,      \* DeepFace.verify calls of this run, in order
    raised,            \* per run_deepface call: the exception raised inside
                       \* its try block, "None" when there was none
    errors,            \* st.error messages shown in this run
    chart,             \* the rendered bar chart, or None
    success,           \* st.success messages of this run, in order
    ret,               \* return value of compare_image, Unset until it returns
    crashed            \* an exception escaped the script

vars == <<clicks, distance_metrics, model, uploads, sample,
          img_father, img_mother, img_child, pc,
          paternal_result, maternal_result, rdf_calls, verify_calls,
          raised, errors, chart, success, ret, crashed>>

\* ------------------------------------------------------------- load_img
load_img(img) ==
    IF img = None THEN [exc |-> "AttributeError"]
    ELSE IF img.kind = "value_error" THEN [exc |-> "ValueError"]
    ELSE IF img.kind = "undecodable" THEN [exc |-> "OSError"]
    ELSE [exc |-> "None", arr |-> img]

\* ------------------------------------------------------------- show_img
show_img(smp, ups) ==
    [father |-> IF smp THEN SampleImg("father") ELSE ups["father"],
     mother |-> IF smp THEN SampleImg("mother") ELSE ups["mother"],
     child  |-> IF smp THEN SampleImg("child")  ELSE ups["child"]]

\* --------------------------------------------------------------- charts
charts_linear(pr, mr, dm) ==
    [Father |-> IF dm = "cosine"
                THEN RatAdd(Rat(-1, 1), pr.distance)
                ELSE RatDiv(One, RatAdd(One, pr.distance)),
     Mother |-> IF dm = "cosine"
                THEN RatSub(One, mr.distance)
                ELSE RatSub(One, mr.distance)]

charts(pr, mr, dm) ==
    [Father |-> IF dm = "cosine"
                THEN RatAdd(Rat(-1, 1), pr.distance)
                ELSE RatDiv(One, RatAdd(One, pr.distance)),
     Mother |-> IF dm = "cosine"
                THEN RatSub(One, mr.distance)
                ELSE RatDiv(One, RatAdd(One, mr.distance))]

\* --------------------------------------------------------- run_deepface
\* The first exception raised while evaluating
\*   DeepFace.verify(load_img(img1), load_img(img2), ...)
\* with the verifier behaving as `outcome`.
RaisedIn(img1, img2, outcome) ==
    IF load_img(img1).exc # "None" THEN load_img(img1).exc
    ELSE IF load_img(img2).exc # "None" THEN load_img(img2).exc
    ELSE outcome.exc

\* Whether evaluation reaches the call of DeepFace.verify.
ReachesVerify(img1, img2) ==
    load_img(img1).exc = "None" /\ load_img(img2).exc = "None"

run_deepface_default_result(img1, img2, model_name, dm, outcome) ==
    LET e == RaisedIn(img1, img2, outcome) IN
    [exc    |-> IF e = "ValueError" THEN "None" ELSE e,
     result |-> IF e = "None" THEN outcome.result ELSE [distance |-> Rat(0, Scale)],
     errors |-> IF e = "ValueError" THEN 1 ELSE 0,
     verify |-> IF ReachesVerify(img1, img2)
                THEN <<[img1 |-> load_img(img1).arr, img2 |-> load_img(img2).arr,
                        model_name |-> model_name, distance_metric |-> dm]>>
                ELSE <<>>]

run_deepface_catch_all(img1, img2, model_name, dm, outcome) ==
    LET e == RaisedIn(img1, img2, outcome) IN
    [exc    |-> "None",
     result |-> IF e = "None" THEN outcome.result ELSE None,
     errors |-> IF e = "None" THEN 0 ELSE 1,
     verify |-> IF ReachesVerify(img1, img2)
                THEN <<[img1 |-> load_img(img1).arr, img2 |-> load_img(img2).arr,
                        model_name |-> model_name, distance_metric |-> dm]>>
                ELSE <<>>]

\* Result of one call: the exception that escapes ("None" when the call
\* returns), the value returned, the number of st.error messages, and the
\* DeepFace.verify invocation made, if any.
run_deepface(img1, img2, model_name, dm, outcome) ==
    LET e == RaisedIn(img1, img2, outcome) IN
    [exc    |-> IF e = "ValueError" THEN "None" ELSE e,
     result |-> IF e = "None" THEN outcome.result ELSE None,
     errors |-> IF e = "ValueError" THEN 1 ELSE 0,
     verify |-> IF ReachesVerify(img1, img2)
                THEN <<[img1 |-> load_img(img1).arr, img2 |-> load_img(img2).arr,
                        model_name |-> model_name, distance_metric |-> dm]>>
                ELSE <<>>]

\* -------------------------------------------------------- compare_image
\* Arguments of the two run_deepface calls.
PaternalArgs_swapped(f, m, c, dm, mn) == [img1 |-> m, img2 |-> c, model_name |-> mn, dm |-> dm]

PaternalArgs(f, m, c, dm, mn) == [img1 |-> f, img2 |-> c, model_name |-> mn, dm |-> dm]

MaternalArgs(f, m, c, dm, mn) == [img1 |-> m, img2 |-> c, model_name |-> mn, dm |-> dm]

ShouldShow(pr, mr) == pr # None /\ mr # None

Decision_nonstrict(pr, mr) ==
    IF ~RatLess(pr.distance, mr.distance)
    THEN "The child looks more like mother."
    ELSE "The child looks more like father."

Decision(pr, mr) ==
    IF RatLess(mr.distance, pr.distance)
    THEN "The child looks more like mother."
    ELSE "The child looks more like father."

ReturnValue(pr, mr) == [first |-> mr.distance, second |-> pr.distance]

\* ------------------------------------------------------------ add_click
add_click_twice(c) == c + 2

add_click(c) == c + 1

\* --------------------------------------------------- module-level script
UseSample(c) == c = 0

AllPresent_parents_only(f, m, c) == f # None /\ m # None

AllPresent(f, m, c) == f # None /\ m # None /\ c # None

\* The script from its first line through show_img and the test that guards
\* compare_image, run with the given session and widget state.
ScriptStart(c, dm, mn, ups) ==
    LET imgs == show_img(UseSample(c), ups) IN
    /\ clicks' = c
    /\ distance_metrics' = dm
    /\ model' = mn
    /\ uploads' = ups
    /\ sample' = UseSample(c)
    /\ img_father' = imgs.father
    /\ img_mother' = imgs.mother
    /\ img_child' = imgs.child
    /\ pc' = IF AllPresent(imgs.father, imgs.mother, imgs.child)
             THEN "paternal" ELSE "done"
    /\ paternal_result' = Unset
    /\ maternal_result' = Unset
    /\ rdf_calls' = <<>>
    /\ verify_calls' = <<>>
    /\ raised' = <<>>
    /\ errors' = 0
    /\ chart' = None
    /\ success' = <<>>
    /\ ret' = Unset
    /\ crashed' = FALSE

NoUploads == [s \in Slots |-> None]

\* First load of the page in a new session.
Init ==
    /\ clicks = 0
    /\ distance_metrics = "cosine"
    /\ model = "Facenet"
    /\ uploads = NoUploads
    /\ sample = UseSample(0)
    /\ img_father = show_img(UseSample(0), NoUploads).father
    /\ img_mother = show_img(UseSample(0), NoUploads).mother
    /\ img_child = show_img(UseSample(0), NoUploads).child
    /\ pc = IF AllPresent(show_img(UseSample(0), NoUploads).father,
                          show_img(UseSample(0), NoUploads).mother,
                          show_img(UseSample(0), NoUploads).child)
            THEN "paternal" ELSE "done"
    /\ paternal_result = Unset
    /\ maternal_result = Unset
    /\ rdf_calls = <<>>
    /\ verify_calls = <<>>
    /\ raised = <<>>
    /\ errors = 0
    /\ chart = None
    /\ success = <<>>
    /\ ret = Unset
    /\ crashed = FALSE

\* ------------------------------------------------------- user actions
\* "Try it yourself." : add_click runs, then the script reruns.
ClickTry ==
    /\ pc = "done"
    /\ clicks < MaxClicks
    /\ ScriptStart(add_click(clicks), distance_metrics, model, uploads)

SelectMetric ==
    /\ pc = "done"
    /\ \E dm \in Metrics \ {distance_metrics} :
          ScriptStart(clicks, dm, model, uploads)

SelectModel ==
    /\ pc = "done"
    /\ \E mn \in Models \ {model} :
          ScriptStart(clicks, distance_metrics, mn, uploads)

\* The uploaders exist only in runs where show_img(sample=False) drew them.
Upload ==
    /\ pc = "done"
    /\ ~sample
    /\ \E s \in Slots, k \in Kinds :
          /\ uploads[s] # UploadImg(s, k)
          /\ ScriptStart(clicks, distance_metrics, model,
                         [uploads EXCEPT ![s] = UploadImg(s, k)])

RemoveUpload ==
    /\ pc = "done"
    /\ ~sample
    /\ \E s \in Slots :
          /\ uploads[s] # None
          /\ ScriptStart(clicks, distance_metrics, model,
                         [uploads EXCEPT ![s] = None])

\* ----------------------------------------------- steps of compare_image
PaternalCall ==
    /\ pc = "paternal"
    /\ \E o \in VerifyOutcomes :
        LET a == PaternalArgs(img_father, img_mother, img_child,
                              distance_metrics, model)
            r == run_deepface(a.img1, a.img2, a.model_name, a.dm, o)
        IN
        /\ rdf_calls' = Append(rdf_calls, a)
        /\ verify_calls' = verify_calls \o r.verify
        /\ raised' = Append(raised, RaisedIn(a.img1, a.img2, o))
        /\ errors' = errors + r.errors
        /\ IF r.exc # "None"
           THEN /\ crashed' = TRUE
                /\ pc' = "done"
                /\ paternal_result' = paternal_result
           ELSE /\ crashed' = crashed
                /\ pc' = "maternal"
                /\ paternal_result' = r.result
    /\ UNCHANGED <<clicks, distance_metrics, model, uploads, sample,
                   img_father, img_mother, img_child, maternal_result,
                   chart, success, ret>>

MaternalCall ==
    /\ pc = "maternal"
    /\ \E o \in VerifyOutcomes :
        LET a == MaternalArgs(img_father, img_mother, img_child,
                              distance_metrics, model)
            r == run_deepface(a.img1, a.img2, a.model_name, a.dm, o)
        IN
        /\ rdf_calls' = Append(rdf_calls, a)
        /\ verify_calls' = verify_calls \o r.verify
        /\ raised' = Append(raised, RaisedIn(a.img1, a.img2, o))
        /\ errors' = errors + r.errors
        /\ IF r.exc # "None"
           THEN /\ crashed' = TRUE
                /\ pc' = "done"
                /\ maternal_result' = maternal_result
           ELSE /\ crashed' = crashed
                /\ pc' = "show"
                /\ maternal_result' = r.result
    /\ UNCHANGED <<clicks, distance_metrics, model, uploads, sample,
                   img_father, img_mother, img_child, paternal_result,
                   chart, success, ret>>

ShowResults ==
    /\ pc = "show"
    /\ IF ShouldShow(paternal_result, maternal_result)
       THEN /\ chart' = charts(paternal_result, maternal_result, distance_metrics)
            /\ success' = Append(success, Decision(paternal_result, maternal_result))
            /\ ret' = ReturnValue(paternal_result, maternal_result)
       ELSE /\ chart' = chart
            /\ success' = success
            /\ ret' = None
    /\ pc' = "done"
    /\ UNCHANGED <<clicks, distance_metrics, model, uploads, sample,
                   img_father, img_mother, img_child,
                   paternal_result, maternal_result, rdf_calls, verify_calls,
                   raised, errors, crashed>>

Next ==
    \/ ClickTry
    \/ SelectMetric
    \/ SelectModel
    \/ Upload
    \/ RemoveUpload
    \/ PaternalCall
    \/ MaternalCall
    \/ ShowResults

Spec == Init /\ [][Next]_vars

\* =================================================================
\* Properties
\* =================================================================
MotherMsg == "The child looks more like mother."
FatherMsg == "The child looks more like father."

IsResult(r) == r # None /\ r # Unset
BothPresent == IsResult(paternal_result) /\ IsResult(maternal_result)
\* compare_image was entered in the current run.
Started == pc # "done" \/ Len(rdf_calls) >= 1
\* Numerator of a distance; all distances share the denominator Scale.
Num(r) == r.distance[1]

\* C1: when both results are present, the finished request announces exactly
\* one success message; it names the mother iff motherDistance is strictly
\* smaller than fatherDistance, and the father otherwise (ties included).
Thm_C1_Decision ==
    (pc = "done" /\ BothPresent) =>
        /\ Len(success) = 1
        /\ success[1] \in {MotherMsg, FatherMsg}
        /\ (success[1] = MotherMsg <=> Num(maternal_result) < Num(paternal_result))
        /\ (Num(maternal_result) = Num(paternal_result) => success[1] = FatherMsg)

Wit_C1_Tie ==
    /\ pc = "done"
    /\ BothPresent
    /\ Num(paternal_result) = 6
    /\ Num(maternal_result) = 6
    /\ success = <<FatherMsg>>

\* C2: for the cosine metric both bars are 1 - distance: the father's bar is
\* 1 - fatherDistance and the mother's bar is 1 - motherDistance.
Claim_C2_CosineSymmetric ==
    (chart # None /\ distance_metrics = "cosine") =>
        /\ chart.Father[1] * Scale
             = (Scale - Num(paternal_result)) * chart.Father[2]
        /\ chart.Mother[1] * Scale
             = (Scale - Num(maternal_result)) * chart.Mother[2]

\* C3: if either run_deepface call of a request failed (returned None), the
\* request renders no chart and announces no decision, whichever call it
\* was; a chart or a decision appears only when both results are present.
Thm_C3_NoPartial ==
    /\ (\E i \in DOMAIN raised : raised[i] # "None") =>
           (chart = None /\ success = <<>>)
    /\ (paternal_result = None \/ maternal_result = None) =>
           (chart = None /\ success = <<>>)
    /\ (chart # None \/ success # <<>>) =>
           (BothPresent /\ raised = <<"None", "None">>)
    /\ (pc = "done" /\ BothPresent) => (chart # None /\ success # <<>>)

Wit_C3_FatherFailed ==
    /\ pc = "done"
    /\ raised = <<"ValueError", "None">>
    /\ paternal_result = None
    /\ IsResult(maternal_result)
    /\ chart = None
    /\ success = <<>>

\* C4 (as claimed): every request that starts a comparison makes exactly two
\* verification calls, (father, child) then (mother, child), with the
\* sidebar's model and metric, the second whether or not the first failed.
Claim_C4_ExactlyTwice ==
    (pc = "done" /\ Started) =>
        /\ Len(rdf_calls) = 2
        /\ rdf_calls[1] = [img1 |-> img_father, img2 |-> img_child,
                           model_name |-> model, dm |-> distance_metrics]
        /\ rdf_calls[2] = [img1 |-> img_mother, img2 |-> img_child,
                           model_name |-> model, dm |-> distance_metrics]

\* C4 (amended): the first call is (father, child); unless an uncaught
\* (non-value) failure of the first call aborts the request, the second call
\* (mother, child) follows, whether the first returned a result or None;
\* every call carries the sidebar's model and metric; a request that is not
\* aborted makes exactly two calls, a request aborted in the first call makes
\* exactly one; DeepFace.verify itself is reached only by the calls whose two
\* images load, in the same order.
Thm_C4_TwoCallsUnlessAborted ==
    /\ Len(rdf_calls) <= 2
    /\ \A i \in DOMAIN rdf_calls :
          /\ rdf_calls[i].model_name = model
          /\ rdf_calls[i].dm = distance_metrics
          /\ rdf_calls[i].img2 = img_child
          /\ rdf_calls[i].img2.name = "child"
    /\ Len(rdf_calls) >= 1 =>
          (rdf_calls[1].img1 = img_father /\ rdf_calls[1].img1.name = "father")
    /\ Len(rdf_calls) = 2 =>
          (rdf_calls[2].img1 = img_mother /\ rdf_calls[2].img1.name = "mother")
    /\ (pc = "done" /\ Started /\ raised[1] \in {"None", "ValueError"}) =>
          Len(rdf_calls) = 2
    /\ (pc = "done" /\ Started /\ ~crashed) => Len(rdf_calls) = 2
    /\ (pc = "done" /\ Started /\ raised[1] \notin {"None", "ValueError"}) =>
          Len(rdf_calls) = 1
    /\ Len(verify_calls) <= Len(rdf_calls)
    /\ \A i \in DOMAIN verify_calls :
          /\ verify_calls[i].model_name = model
          /\ verify_calls[i].distance_metric = distance_metrics
          /\ verify_calls[i].img2.name = "child"
    /\ Len(verify_calls) = 2 =>
          (verify_calls[1].img1.name = "father" /\ verify_calls[2].img1.name = "mother")

Wit_C4_SecondAfterFailedFirst ==
    /\ pc = "done"
    /\ raised = <<"ValueError", "None">>
    /\ Len(rdf_calls) = 2
    /\ Len(verify_calls) = 2
    /\ model = "VGG-Face"
    /\ distance_metrics = "euclidean"

\* C5: a ValueError raised by image loading or by the verifier gives exactly
\* one error message and a None result and the request goes on; any other
\* exception escapes run_deepface and aborts the request, with no error
\* message for that call and no chart or decision.
Thm_C5_FailureKinds ==
    /\ errors = Cardinality({i \in DOMAIN raised : raised[i] = "ValueError"})
    /\ crashed <=> (\E i \in DOMAIN raised : raised[i] \notin {"None", "ValueError"})
    /\ crashed => /\ pc = "done"
                  /\ raised[Len(raised)] \notin {"None", "ValueError"}
                  /\ chart = None
                  /\ success = <<>>
                  /\ ret = Unset
    /\ (Len(raised) >= 1 /\ raised[1] = "ValueError") =>
          (paternal_result = None /\ ~(crashed /\ Len(raised) = 1))
    /\ (Len(raised) = 2 /\ raised[2] = "ValueError") =>
          (maternal_result = None /\ ~crashed /\ pc \in {"show", "done"})

Wit_C5_ValueThenRuntime ==
    /\ raised = <<"ValueError", "RuntimeError">>
    /\ errors = 1
    /\ crashed
    /\ paternal_result = None

\* C6: for a non-cosine metric each bar is 1/(1+d) for that parent's
\* distance d >= 0; it lies in (0, 1], is 1 exactly when d = 0, and a
\* strictly smaller distance gives a strictly larger bar.
Thm_C6_Euclidean ==
    (chart # None /\ distance_metrics # "cosine") =>
        LET f == chart.Father
            m == chart.Mother
            df == Num(paternal_result)
            dmo == Num(maternal_result)
        IN
        /\ f[2] > 0 /\ m[2] > 0
        /\ f[1] * (Scale + df) = Scale * f[2]
        /\ m[1] * (Scale + dmo) = Scale * m[2]
        /\ f[1] > 0 /\ f[1] <= f[2]
        /\ m[1] > 0 /\ m[1] <= m[2]
        /\ (f[1] = f[2] <=> df = 0)
        /\ (m[1] = m[2] <=> dmo = 0)
        /\ (df < dmo => f[1] * m[2] > m[1] * f[2])
        /\ (dmo < df => m[1] * f[2] > f[1] * m[2])
        /\ (df = dmo => f[1] * m[2] = m[1] * f[2])

Wit_C6_Euclidean ==
    /\ chart # None
    /\ distance_metrics = "euclidean_l2"
    /\ Num(paternal_result) = 0
    /\ Num(maternal_result) = 5

\* C7: a comparison (any run_deepface call, error, chart or decision) happens
\* only in a run where all three images are present; in sample mode all
\* three are present and a comparison is attempted.
Thm_C7_AllThree ==
    /\ (Started \/ verify_calls # <<>> \/ errors > 0 \/ chart # None
          \/ success # <<>> \/ crashed) =>
           (img_father # None /\ img_mother # None /\ img_child # None)
    /\ (img_father = None \/ img_mother = None \/ img_child = None) =>
           (pc = "done" /\ rdf_calls = <<>> /\ ret = Unset)
    /\ sample =>
           (img_father # None /\ img_mother # None /\ img_child # None /\ Started)

Wit_C7_ChildMissing ==
    /\ ~sample
    /\ img_father # None
    /\ img_mother # None
    /\ img_child = None
    /\ pc = "done"
    /\ rdf_calls = <<>>

\* C8: the click counter starts at 0 and each step leaves it alone or adds 1;
\* a run uses the sample images exactly when the counter is 0, so once a run
\* has used the uploaders every later run does, with the uploaders' files;
\* changing the metric or the model leaves the counter alone.
Thm_C8_Clicks ==
    /\ (clicks = 0 /\ sample = TRUE)
    /\ [][clicks' = clicks \/ clicks' = clicks + 1]_vars
    /\ [](sample <=> clicks = 0)
    /\ [][~sample => ~sample']_vars
    /\ [](~sample => /\ img_father = uploads["father"]
                     /\ img_mother = uploads["mother"]
                     /\ img_child = uploads["child"])
    /\ [](sample => /\ img_father = SampleImg("father")
                    /\ img_mother = SampleImg("mother")
                    /\ img_child = SampleImg("child"))
    /\ [][(distance_metrics' # distance_metrics \/ model' # model)
            => clicks' = clicks]_vars

Wit_C8_AfterClicks ==
    /\ clicks = 2
    /\ ~sample
    /\ distance_metrics = "euclidean"
    /\ img_father = UploadImg("father", "good")

\* C9: after both comparisons succeed compare_image returns the pair
\* (paternal_result, maternal_result), father's first; when either failed
\* it returns None.
Claim_C9_ReturnsResults ==
    (pc = "done" /\ Started /\ ~crashed) =>
        IF BothPresent
        THEN ret = [first |-> paternal_result, second |-> maternal_result]
        ELSE ret = None

\* C10: whenever a decision is announced, the bar of the parent it names is
\* at least as long as the other parent's bar.
Claim_C10_ChartAgrees ==
    (chart # None /\ Len(success) = 1) =>
        IF success[1] = MotherMsg
        THEN chart.Mother[1] * chart.Father[2] >= chart.Father[1] * chart.Mother[2]
        ELSE chart.Father[1] * chart.Mother[2] >= chart.Mother[1] * chart.Father[2]

====
